---------------------------- MODULE Spec2Model ----------------------------
(***************************************************************************)
(* A model of the d3rs scaling engine: the Linear scale and its lazy       *)
(* DomainIter cursor (src/src/scales/linear.rs), the ScaledSteps step      *)
(* generator (src/src/continuous_mapper.rs) and the Band scale             *)
(* (src/src/scales/band.rs).                                               *)
(*                                                                         *)
(* The code works in f64.  TLC's integers are 32 bits wide, so an f64 is   *)
(* modelled bit-exactly as a record over a natural number kept as a        *)
(* little-endian sequence of limbs (base 2^15): every f64 operation of the *)
(* code is computed on the exact value and rounded to 53 bits, ties to     *)
(* even, as IEEE 754 does.  Exponent overflow and subnormals do not occur  *)
(* for the magnitudes the model draws and are not modelled.                *)
(***************************************************************************)
EXTENDS Integers, Sequences, FiniteSets, TLC

\* Op(v), with v evaluated once however often Op uses it
With(v, Op(_)) == CHOOSE y \in {Op(x) : x \in {v}} : TRUE

(***************************************************************************)
(* Natural numbers of any size: <<>> is 0, limbs least significant first,  *)
(* no leading zero limb.                                                   *)
(***************************************************************************)
LIMB_BITS == 15

BASE == 2^LIMB_BITS

RECURSIVE NatNorm(_)
NatNorm(a) ==
    IF a = <<>> THEN a
    ELSE IF a[Len(a)] = 0 THEN NatNorm(SubSeq(a, 1, Len(a) - 1))
    ELSE a

RECURSIVE NatFromInt(_)
NatFromInt(n) ==
    IF n = 0 THEN <<>> ELSE <<n % BASE>> \o NatFromInt(n \div BASE)

\* a < 2^30 is required; NatFitsInt says so
NatFitsInt(a) == Len(a) <= 2

NatToInt(a) ==
    IF Len(a) = 0 THEN 0
    ELSE IF Len(a) = 1 THEN a[1]
    ELSE a[1] + BASE * a[2]

NatLimb(a, i) == IF i <= Len(a) THEN a[i] ELSE 0

RECURSIVE NatCmpFrom(_, _, _)
NatCmpFrom(a, b, i) ==
    IF i = 0 THEN 0
    ELSE IF a[i] < b[i] THEN -1
    ELSE IF a[i] > b[i] THEN 1
    ELSE NatCmpFrom(a, b, i - 1)

\* -1, 0, 1 as a < b, a = b, a > b
NatCmp(a, b) ==
    IF Len(a) < Len(b) THEN -1
    ELSE IF Len(a) > Len(b) THEN 1
    ELSE NatCmpFrom(a, b, Len(a))

RECURSIVE NatAddC(_, _, _, _)
NatAddC(a, b, i, c) ==
    IF i > Len(a) /\ i > Len(b)
    THEN (IF c = 0 THEN <<>> ELSE <<c>>)
    ELSE LET x == NatLimb(a, i) + NatLimb(b, i) + c
         IN  <<x % BASE>> \o NatAddC(a, b, i + 1, x \div BASE)

NatAdd(a, b) == NatAddC(a, b, 1, 0)

RECURSIVE NatSubC(_, _, _, _)
NatSubC(a, b, i, c) ==
    IF i > Len(a) THEN <<>>
    ELSE LET x == a[i] - NatLimb(b, i) - c
         IN  IF x < 0
             THEN <<x + BASE>> \o NatSubC(a, b, i + 1, 1)
             ELSE <<x>> \o NatSubC(a, b, i + 1, 0)

\* a - b for a >= b
NatSub(a, b) == NatNorm(NatSubC(a, b, 1, 0))

RECURSIVE NatMulSmallC(_, _, _, _)
NatMulSmallC(a, k, i, c) ==
    IF i > Len(a) THEN (IF c = 0 THEN <<>> ELSE <<c>>)
    ELSE LET x == a[i] * k + c
         IN  <<x % BASE>> \o NatMulSmallC(a, k, i + 1, x \div BASE)

\* a * k for 0 <= k <= BASE
NatMulSmall(a, k) == IF k = 0 THEN <<>> ELSE NatMulSmallC(a, k, 1, 0)

NatZeros(n) == [i \in 1..n |-> 0]

RECURSIVE NatMulFrom(_, _, _)
NatMulFrom(a, b, i) ==
    IF i > Len(b) THEN <<>>
    ELSE NatAdd(IF b[i] = 0 \/ a = <<>> THEN <<>>
                ELSE NatZeros(i - 1) \o NatMulSmall(a, b[i]),
                NatMulFrom(a, b, i + 1))

NatMul(a, b) == NatMulFrom(a, b, 1)

\* a * 2^n
NatShl(a, n) ==
    IF a = <<>> THEN a
    ELSE NatZeros(n \div LIMB_BITS) \o NatMulSmall(a, 2^(n % LIMB_BITS))

\* floor(a / 2^n)
NatShr(a, n) ==
    LET drop == n \div LIMB_BITS
        bits == n % LIMB_BITS
        rest == IF drop >= Len(a) THEN <<>> ELSE SubSeq(a, drop + 1, Len(a))
    IN  NatNorm([i \in 1..Len(rest) |->
                    (rest[i] \div 2^bits)
                  + (NatLimb(rest, i + 1) % 2^bits) * 2^(LIMB_BITS - bits)])

\* a mod 2^n # 0
NatLowNonzero(a, n) ==
    LET drop == n \div LIMB_BITS
        bits == n % LIMB_BITS
    IN  \/ \E i \in 1..drop : NatLimb(a, i) # 0
        \/ NatLimb(a, drop + 1) % 2^bits # 0

\* bit i of a, bit 0 the least significant
NatBit(a, i) == (NatLimb(a, (i \div LIMB_BITS) + 1) \div 2^(i % LIMB_BITS)) % 2

IntBitLen(x) == IF x = 0 THEN 0 ELSE CHOOSE k \in 1..30 : 2^(k - 1) <= x /\ x < 2^k

NatBitLen(a) ==
    IF a = <<>> THEN 0 ELSE LIMB_BITS * (Len(a) - 1) + IntBitLen(a[Len(a)])

RECURSIVE NatDigitFix(_, _, _, _)
\* <<floor(r / b), r mod b>> from a digit d that is not too small, t = b * d
NatDigitFix(r, b, d, t) ==
    IF NatCmp(t, r) > 0 THEN NatDigitFix(r, b, d - 1, NatSub(t, b))
    ELSE <<d, NatSub(r, t)>>

\* one digit of a long division, r < b * BASE and the top limb of b at least
\* BASE / 2: the digit is estimated from the two top limbs of r, then fixed
NatDigit(r, b) ==
    LET n    == Len(b)
        est  == (NatLimb(r, n + 1) * BASE + NatLimb(r, n)) \div b[n]
        qhat == IF est > BASE - 1 THEN BASE - 1 ELSE est
    IN  NatDigitFix(r, b, qhat, NatMulSmall(b, qhat))

RECURSIVE NatDivModFrom(_, _, _, _, _)
NatDivModFrom(a, b, i, q, r) ==
    IF i = 0 THEN <<NatNorm(q), r>>
    ELSE With(NatDigit(NatNorm(<<a[i]>> \o r), b),
              LAMBDA dr : NatDivModFrom(a, b, i - 1, <<dr[1]>> \o q, dr[2]))

\* <<floor(a / b), a mod b>> for b # 0, by long division, a limb at a time,
\* both operands scaled so that the top limb of the divisor is at least BASE / 2
NatDivMod(a, b) ==
    LET sh == LIMB_BITS - IntBitLen(b[Len(b)])
    IN  With(<<NatShl(a, sh), NatShl(b, sh)>>,
             LAMBDA ab : With(NatDivModFrom(ab[1], ab[2], Len(ab[1]), <<>>, <<>>),
                              LAMBDA qr : <<qr[1], NatShr(qr[2], sh)>>))

(***************************************************************************)
(* f64.  A finite value is (-1)^s * m * 2^e with m = 0 (then e = 0) or     *)
(* 2^52 <= m < 2^53; k is "fin", "inf" or "nan".                           *)
(***************************************************************************)
MANT_BITS == 53

F64Nan == [k |-> "nan", s |-> 0, m |-> <<>>, e |-> 0]

F64Inf(s) == [k |-> "inf", s |-> s, m |-> <<>>, e |-> 0]

F64Zero(s) == [k |-> "fin", s |-> s, m |-> <<>>, e |-> 0]

IsZero(x) == x.k = "fin" /\ x.m = <<>>

\* The f64 nearest to (-1)^s * n * 2^e (plus less than one unit of n when
\* sticky), ties to even.
RoundPack(s, n, e, sticky) ==
    LET len == NatBitLen(n)
    IN  IF len = 0 THEN F64Zero(s)
        ELSE IF len <= MANT_BITS
        THEN [k |-> "fin", s |-> s, m |-> NatShl(n, MANT_BITS - len),
              e |-> e - (MANT_BITS - len)]
        ELSE LET sh   == len - MANT_BITS
                 q    == NatShr(n, sh)
                 half == NatBit(n, sh - 1) = 1
                 rest == sticky \/ NatLowNonzero(n, sh - 1)
                 up   == half /\ (rest \/ NatBit(q, 0) = 1)
                 q1   == IF up THEN NatAdd(q, <<1>>) ELSE q
             IN  IF NatBitLen(q1) > MANT_BITS
                 THEN [k |-> "fin", s |-> s, m |-> NatShr(q1, 1), e |-> e + sh + 1]
                 ELSE [k |-> "fin", s |-> s, m |-> q1, e |-> e + sh]

\* `n as f64` for an integer n of the model
F64FromInt(n) ==
    IF n < 0 THEN RoundPack(1, NatFromInt(0 - n), 0, FALSE)
    ELSE RoundPack(0, NatFromInt(n), 0, FALSE)

\* `n as f64` for an unsigned integer kept as limbs
F64FromNat(n) == RoundPack(0, n, 0, FALSE)

F64Neg(x) == IF x.k = "nan" THEN x ELSE [x EXCEPT !.s = 1 - x.s]

F64Abs(x) == IF x.k = "nan" THEN x ELSE [x EXCEPT !.s = 0]

SignXor(a, b) == (a + b) % 2

F64Mul(x, y) ==
    IF x.k = "nan" \/ y.k = "nan" THEN F64Nan
    ELSE IF x.k = "inf" \/ y.k = "inf"
    THEN (IF IsZero(x) \/ IsZero(y) THEN F64Nan ELSE F64Inf(SignXor(x.s, y.s)))
    ELSE IF IsZero(x) \/ IsZero(y) THEN F64Zero(SignXor(x.s, y.s))
    ELSE RoundPack(SignXor(x.s, y.s), NatMul(x.m, y.m), x.e + y.e, FALSE)

F64Div(x, y) ==
    IF x.k = "nan" \/ y.k = "nan" THEN F64Nan
    ELSE IF x.k = "inf"
    THEN (IF y.k = "inf" THEN F64Nan ELSE F64Inf(SignXor(x.s, y.s)))
    ELSE IF y.k = "inf" THEN F64Zero(SignXor(x.s, y.s))
    ELSE IF IsZero(y)
    THEN (IF IsZero(x) THEN F64Nan ELSE F64Inf(SignXor(x.s, y.s)))
    ELSE IF IsZero(x) THEN F64Zero(SignXor(x.s, y.s))
    ELSE LET qr == NatDivMod(NatShl(x.m, MANT_BITS + 3), y.m)
         IN  RoundPack(SignXor(x.s, y.s), qr[1], x.e - y.e - (MANT_BITS + 3),
                       qr[2] # <<>>)

\* magnitudes of two finite non-zero values: -1, 0, 1
MagCmp(x, y) ==
    LET e == IF x.e < y.e THEN x.e ELSE y.e
    IN  NatCmp(NatShl(x.m, x.e - e), NatShl(y.m, y.e - e))

F64Add(x, y) ==
    IF x.k = "nan" \/ y.k = "nan" THEN F64Nan
    ELSE IF x.k = "inf"
    THEN (IF y.k = "inf" /\ y.s # x.s THEN F64Nan ELSE x)
    ELSE IF y.k = "inf" THEN y
    ELSE IF IsZero(x) THEN (IF IsZero(y) /\ x.s # y.s THEN F64Zero(0) ELSE y)
    ELSE IF IsZero(y) THEN x
    ELSE LET e == IF x.e < y.e THEN x.e ELSE y.e
             a == NatShl(x.m, x.e - e)
             b == NatShl(y.m, y.e - e)
             c == NatCmp(a, b)
         IN  IF x.s = y.s THEN RoundPack(x.s, NatAdd(a, b), e, FALSE)
             ELSE IF c = 0 THEN F64Zero(0)
             ELSE IF c > 0 THEN RoundPack(x.s, NatSub(a, b), e, FALSE)
             ELSE RoundPack(y.s, NatSub(b, a), e, FALSE)

F64Sub(x, y) == F64Add(x, F64Neg(y))

\* x < y (false when either is NaN)
F64Lt(x, y) ==
    IF x.k = "nan" \/ y.k = "nan" THEN FALSE
    ELSE IF IsZero(x) /\ IsZero(y) THEN FALSE
    ELSE IF x.s # y.s THEN (IF IsZero(x) THEN y.s = 0
                            ELSE IF IsZero(y) THEN x.s = 1
                            ELSE x.s = 1)
    ELSE IF x.k = "inf" THEN (y.k # "inf" /\ x.s = 1)
    ELSE IF y.k = "inf" THEN y.s = 0
    ELSE IF IsZero(x) THEN y.s = 0
    ELSE IF IsZero(y) THEN x.s = 1
    ELSE IF x.s = 0 THEN MagCmp(x, y) < 0 ELSE MagCmp(x, y) > 0

F64IsInfinite(x) == x.k = "inf"

\* f64::round: to the nearest integer, halves away from zero
F64Round(x) ==
    IF x.k # "fin" \/ IsZero(x) \/ x.e >= 0 THEN x
    ELSE IF 0 - x.e > MANT_BITS THEN F64Zero(x.s)
    ELSE LET sh == 0 - x.e
             q  == NatShr(x.m, sh)
             q1 == IF NatBit(x.m, sh - 1) = 1 THEN NatAdd(q, <<1>>) ELSE q
         IN  RoundPack(x.s, q1, 0, FALSE)

\* f64::floor
F64Floor(x) ==
    IF x.k # "fin" \/ IsZero(x) \/ x.e >= 0 THEN x
    ELSE LET sh == 0 - x.e
             q  == IF sh > MANT_BITS THEN <<>> ELSE NatShr(x.m, sh)
             q1 == IF x.s = 1 /\ (sh > MANT_BITS \/ NatLowNonzero(x.m, sh))
                   THEN NatAdd(q, <<1>>) ELSE q
         IN  RoundPack(x.s, q1, 0, FALSE)

\* the integer part of |x| as limbs, for finite x with |x| < 2^90
F64TruncNat(x) ==
    IF IsZero(x) THEN <<>>
    ELSE IF x.e >= 0 THEN NatShl(x.m, x.e)
    ELSE IF 0 - x.e > MANT_BITS THEN <<>>
    ELSE NatShr(x.m, 0 - x.e)

\* `x as T` for an integer type T = lo..hi with |lo|, hi < 2^30: truncates
\* toward zero, saturates at the type's limits, NaN becomes 0
F64AsInt(x, lo, hi) ==
    IF x.k = "nan" THEN 0
    ELSE IF x.k = "inf" THEN (IF x.s = 1 THEN lo ELSE hi)
    ELSE IF x.e > 40 THEN (IF x.s = 1 THEN lo ELSE hi)
    ELSE LET t == F64TruncNat(x)
         IN  IF ~NatFitsInt(t) THEN (IF x.s = 1 THEN lo ELSE hi)
             ELSE LET v == IF x.s = 1 THEN 0 - NatToInt(t) ELSE NatToInt(t)
                  IN  IF v < lo THEN lo ELSE IF v > hi THEN hi ELSE v

(***************************************************************************)
(* The integer domain types.  A domain value is a signed integer of any    *)
(* size, [s, n]: sign and magnitude, zero with s = 0.                      *)
(***************************************************************************)
Big(i) == IF i < 0 THEN [s |-> 1, n |-> NatFromInt(0 - i)]
          ELSE [s |-> 0, n |-> NatFromInt(i)]

BigOfNat(n) == [s |-> 0, n |-> n]

BigNeg(a) == IF a.n = <<>> THEN a ELSE [a EXCEPT !.s = 1 - a.s]

\* -1, 0, 1 as a < b, a = b, a > b
BigCmp(a, b) ==
    IF a.s # b.s THEN (IF a.s = 1 THEN -1 ELSE 1)
    ELSE IF a.s = 0 THEN NatCmp(a.n, b.n)
    ELSE NatCmp(b.n, a.n)

BigLt(a, b) == BigCmp(a, b) < 0

BigLe(a, b) == BigCmp(a, b) <= 0

BigAdd(a, b) ==
    IF a.s = b.s THEN [s |-> IF NatAdd(a.n, b.n) = <<>> THEN 0 ELSE a.s,
                       n |-> NatAdd(a.n, b.n)]
    ELSE IF NatCmp(a.n, b.n) = 0 THEN Big(0)
    ELSE IF NatCmp(a.n, b.n) > 0 THEN [s |-> a.s, n |-> NatSub(a.n, b.n)]
    ELSE [s |-> b.s, n |-> NatSub(b.n, a.n)]

BigSub(a, b) == BigAdd(a, BigNeg(b))

\* the value of a small domain value as an integer of the model
BigToInt(a) == IF a.s = 1 THEN 0 - NatToInt(a.n) ELSE NatToInt(a.n)

BigIsSmall(a) == NatFitsInt(a.n)

Pow2Nat(k) == NatShl(<<1>>, k)

RECURSIVE NatFromThousands(_)
\* a decimal literal written in groups of three digits, as the source writes it
NatFromThousands(g) ==
    IF g = <<>> THEN <<>>
    ELSE NatAdd(NatMulSmall(NatFromThousands(SubSeq(g, 1, Len(g) - 1)), 1000),
                NatFromInt(g[Len(g)]))

SignedMin(bits) == BigNeg(BigOfNat(Pow2Nat(bits - 1)))

SignedMax(bits) == BigOfNat(NatSub(Pow2Nat(bits - 1), <<1>>))

UnsignedMax(bits) == BigOfNat(NatSub(Pow2Nat(bits), <<1>>))

\* lo..hi is the type's range; MIN and MAX are ConvertToFloat's constants
I64 == [name |-> "i64", bits |-> 64, lo |-> SignedMin(64), hi |-> SignedMax(64),
        MIN |-> BigNeg(BigOfNat(NatFromThousands(<<9, 7, 199, 254, 740, 991>>))),
        MAX |-> BigOfNat(NatFromThousands(<<9, 7, 199, 254, 740, 990>>))]

I32 == [name |-> "i32", bits |-> 32, lo |-> SignedMin(32), hi |-> SignedMax(32),
        MIN |-> SignedMin(32), MAX |-> BigSub(SignedMax(32), Big(1))]

I16 == [name |-> "i16", bits |-> 16, lo |-> SignedMin(16), hi |-> SignedMax(16),
        MIN |-> SignedMin(16), MAX |-> BigSub(SignedMax(16), Big(1))]

USIZE == [name |-> "usize", bits |-> 64, lo |-> Big(0), hi |-> UnsignedMax(64),
          MIN |-> Big(0),
          MAX |-> BigOfNat(NatFromThousands(<<9, 7, 199, 254, 740, 990>>))]

U32 == [name |-> "u32", bits |-> 32, lo |-> Big(0), hi |-> UnsignedMax(32),
        MIN |-> Big(0), MAX |-> BigSub(UnsignedMax(32), Big(1))]

U16 == [name |-> "u16", bits |-> 16, lo |-> Big(0), hi |-> UnsignedMax(16),
        MIN |-> Big(0), MAX |-> BigSub(UnsignedMax(16), Big(1))]

NumTypes == {I64, I32, I16, USIZE, U32, U16}

InType(T, v) == BigLe(T.lo, v) /\ BigLe(v, T.hi)

\* a mod 2^n
NatLowBits(a, n) ==
    LET keep == n \div LIMB_BITS
        bits == n % LIMB_BITS
    IN  NatNorm([i \in 1..(IF bits = 0 THEN keep ELSE keep + 1) |->
                    IF i <= keep THEN NatLimb(a, i) ELSE NatLimb(a, i) % 2^bits])

\* what the type's two's-complement arithmetic keeps of the exact value v
\* when overflow checks are off
Wrap(T, v) ==
    LET low == NatLowBits(v.n, T.bits)
        r   == IF v.s = 0 \/ low = <<>> THEN low ELSE NatSub(Pow2Nat(T.bits), low)
    IN  IF T.lo.s = 1 /\ NatCmp(r, Pow2Nat(T.bits - 1)) >= 0
        THEN BigNeg(BigOfNat(NatSub(Pow2Nat(T.bits), r)))
        ELSE BigOfNat(r)

\* `a - b` and `a + b` in the domain type: a build with overflow checks
\* panics when overflow is set, a build without them goes on with v
NativeSub(T, a, b) ==
    [overflow |-> ~InType(T, BigSub(a, b)), v |-> Wrap(T, BigSub(a, b))]

NativeAdd(T, a, b) ==
    [overflow |-> ~InType(T, BigAdd(a, b)), v |-> Wrap(T, BigAdd(a, b))]

\* ConvertToFloat::to_float: `domain as f64`
to_float(v) == RoundPack(v.s, v.n, 0, FALSE)

\* ConvertToFloat::from_float: `float as $typ` truncates toward zero,
\* saturates at the type's limits and turns NaN into 0
from_float(T, x) ==
    IF x.k = "nan" THEN Big(0)
    ELSE IF x.k = "inf" \/ x.e > T.bits THEN (IF x.s = 1 THEN T.lo ELSE T.hi)
    ELSE LET n == F64TruncNat(x)
             t == IF n = <<>> THEN Big(0) ELSE [s |-> x.s, n |-> n]
         IN  IF BigLt(t, T.lo) THEN T.lo
             ELSE IF BigLt(T.hi, t) THEN T.hi
             ELSE t

\* `x as usize`: truncation toward zero, negative values and NaN become 0.
\* A value of 2^30 or more is read as 2^30 - 1, far above every dimension of
\* the model, where the code gives the value itself (up to 2^64 - 1).
AsUsize(x) == F64AsInt(x, 0, 2^30 - 1)

(***************************************************************************)
(* Linear::try_new.  The result is Ok with the scale, an Err of ScaleError *)
(* (explain names the bound an OutOfRange message speaks of) or, in a      *)
(* build with overflow checks, a panic in `max - min`.                     *)
(***************************************************************************)
MIN_DIMENSION == 5

NoScale == [T |-> I16, start |-> Big(0), dimension |-> 0, min |-> Big(0),
            max |-> Big(0), ratio |-> F64Nan, domain_range |-> F64Nan]

Err(kind, explain) ==
    [kind |-> kind, explain |-> explain, scale |-> NoScale, overflowed |-> FALSE]

Panicked ==
    [kind |-> "Panic", explain |-> "", scale |-> NoScale, overflowed |-> TRUE]

\* the checked subtraction and what follows it
try_new_range(T, start, min, max, sign, dimension, checks) ==
    LET sub == NativeSub(T, max, min)
    IN  IF sub.overflow /\ checks THEN Panicked
        ELSE IF BigLt(T.MAX, sub.v) THEN Err("OutOfRange", "difference")
        ELSE LET domain_range == to_float(sub.v)
                 ratio == F64Mul(F64Div(domain_range, F64FromInt(dimension - 1)),
                                 sign)
             IN  IF F64IsInfinite(ratio)
                 THEN Err("DimensionTooSmall", "")
                 ELSE [kind |-> "Ok", explain |-> "",
                       scale |-> [T |-> T, start |-> start, dimension |-> dimension,
                                  min |-> min, max |-> max, ratio |-> ratio,
                                  domain_range |-> domain_range],
                       overflowed |-> sub.overflow]

\* try_new as it would be with the range checks ahead of the dimension check
try_new_RangeFirst(T, start, end, dimension, checks) ==
    LET forward == BigLt(start, end)
        min  == IF forward THEN start ELSE end
        max  == IF forward THEN end ELSE start
        sign == IF forward THEN F64FromInt(1) ELSE F64FromInt(-1)
    IN  IF BigLt(min, T.MIN) THEN Err("OutOfRange", "minimum")
        ELSE IF BigLt(T.MAX, max) THEN Err("OutOfRange", "maximum")
        ELSE IF dimension < MIN_DIMENSION THEN Err("DimensionTooSmall", "")
        ELSE try_new_range(T, start, min, max, sign, dimension, checks)

\* try_new as it would be with `max >= MAX` for `max > MAX`
try_new_MaxInclusive(T, start, end, dimension, checks) ==
    IF dimension < MIN_DIMENSION THEN Err("DimensionTooSmall", "")
    ELSE LET forward == BigLt(start, end)
             min  == IF forward THEN start ELSE end
             max  == IF forward THEN end ELSE start
             sign == IF forward THEN F64FromInt(1) ELSE F64FromInt(-1)
         IN  IF BigLt(min, T.MIN) THEN Err("OutOfRange", "minimum")
             ELSE IF BigLe(T.MAX, max) THEN Err("OutOfRange", "maximum")
             ELSE try_new_range(T, start, min, max, sign, dimension, checks)

try_new(T, start, end, dimension, checks) ==
    IF dimension < MIN_DIMENSION THEN Err("DimensionTooSmall", "")
    ELSE LET forward == BigLt(start, end)
             min  == IF forward THEN start ELSE end
             max  == IF forward THEN end ELSE start
             sign == IF forward THEN F64FromInt(1) ELSE F64FromInt(-1)
         IN  IF BigLt(min, T.MIN) THEN Err("OutOfRange", "minimum")
             ELSE IF BigLt(T.MAX, max) THEN Err("OutOfRange", "maximum")
             ELSE try_new_range(T, start, min, max, sign, dimension, checks)

(***************************************************************************)
(* DomainScale for Linear.  An Option is [kind, v]: "Some" with v, "None", *)
(* or "Panic" when the native subtraction or addition overflows in a build *)
(* with overflow checks.                                                   *)
(***************************************************************************)
domain_to_coordinate(scale, value, checks) ==
    IF BigLe(scale.min, value) /\ BigLe(value, scale.max)
    THEN LET sub == IF BigLt(value, scale.start)
                    THEN NativeSub(scale.T, scale.start, value)
                    ELSE NativeSub(scale.T, value, scale.start)
         IN  IF sub.overflow /\ checks
             THEN [kind |-> "Panic", v |-> 0, overflowed |-> TRUE]
             ELSE LET diff == to_float(sub.v)
                      dimension ==
                          AsUsize(F64Round(F64Mul(F64Div(diff, scale.domain_range),
                                                  F64FromInt(scale.dimension - 1))))
                  IN  [kind |-> "Some", v |-> dimension, overflowed |-> sub.overflow]
    ELSE [kind |-> "None", v |-> 0, overflowed |-> FALSE]

coordinate_to_domain(scale, coordinate, checks) ==
    IF coordinate < scale.dimension
    THEN LET domain_value == F64Mul(scale.ratio, F64FromInt(coordinate))
             add == NativeAdd(scale.T, scale.start, from_float(scale.T, domain_value))
         IN  IF add.overflow /\ checks
             THEN [kind |-> "Panic", v |-> Big(0), overflowed |-> TRUE]
             ELSE [kind |-> "Some", v |-> add.v, overflowed |-> add.overflow]
    ELSE [kind |-> "None", v |-> Big(0), overflowed |-> FALSE]

(***************************************************************************)
(* The lazy sequence: Linear::create_iter and DomainIter::next.            *)
(***************************************************************************)
NoCursor == [live |-> FALSE, T |-> I16, current |-> F64Nan, domain_step |-> F64Nan,
             increment |-> F64Nan, dimension |-> F64Nan, dimension_end |-> 0]

create_iter(scale, step) ==
    LET increment   == F64Abs(F64Div(step, scale.ratio))
        domain_step == F64Mul(increment, scale.ratio)
    IN  [live |-> TRUE, T |-> scale.T, current |-> to_float(scale.start),
         domain_step |-> domain_step, increment |-> increment,
         dimension |-> F64Zero(0), dimension_end |-> scale.dimension]

iter(scale) == create_iter(scale, scale.ratio)

intervals(scale, step) == create_iter(scale, to_float(step))

\* DomainIter::next: [some, item, cursor], the cursor as the call leaves it
DomainIterNext(c) ==
    LET dimension == AsUsize(F64Round(c.dimension))
    IN  IF dimension < c.dimension_end
        THEN [some |-> TRUE,
              item |-> <<from_float(c.T, c.current), dimension>>,
              cursor |-> [c EXCEPT !.dimension = F64Add(c.dimension, c.increment),
                                   !.current = F64Add(c.current, c.domain_step)]]
        ELSE [some |-> FALSE, item |-> <<Big(0), 0>>, cursor |-> c]

(***************************************************************************)
(* ScaledSteps.  A constructor call returns the generator ("Ok") or        *)
(* panics; cause names what went wrong: "divide_by_zero" panics in every   *)
(* build, "overflow" and "underflow" (of a usize subtraction) panic in a   *)
(* build with overflow checks and wrap in one without, which goes on and   *)
(* returns a generator.  i128 values are integers of any size.             *)
(***************************************************************************)
BigAbs(a) == [a EXCEPT !.s = 0]

\* `a / b` of the integer types, b # 0: the quotient truncated toward zero
BigDivT(a, b) ==
    LET q == NatDivMod(a.n, b.n)[1]
    IN  IF q = <<>> THEN Big(0) ELSE [s |-> SignXor(a.s, b.s), n |-> q]

\* `a % b` of the integer types, b # 0: the remainder has the sign of a
BigRemT(a, b) ==
    LET r == NatDivMod(a.n, b.n)[2]
    IN  IF r = <<>> THEN Big(0) ELSE [s |-> a.s, n |-> r]

ScaledSteps_new(dimension) ==
    [dimension |-> dimension, values |-> <<>>, dimension_step |-> 1,
     dimension_start |-> 0]

Built(self, cause) == [kind |-> "Ok", cause |-> cause, steps |-> self]

Aborted(self, cause) == [kind |-> "Panic", cause |-> cause, steps |-> self]

\* a * k for an integer k >= 0 of the model
BigMulSmall(a, k) == IF k = 0 \/ a.n = <<>> THEN Big(0) ELSE [a EXCEPT !.n = NatMulSmall(a.n, k)]

\* The fold over 0..count: push current_value, then current_value +=
\* step_value.  The i-th addition leaves start_value + i * step_value, wrapped
\* into the type; it overflows when the exact sum is outside the type.  A
\* count of 2^30 or more, that no vector of the program holds, ends it.
assign_steps(N, self, count, start_value, step_value, cause, checks) ==
    IF count.s = 0 /\ ~BigIsSmall(count) THEN Aborted(self, "capacity")
    ELSE
    LET len == IF count.s = 1 THEN 0 ELSE BigToInt(count)
        overflow == \E i \in 1..len :
                       ~InType(N, BigAdd(start_value, BigMulSmall(step_value, i)))
        values == [i \in 1..len |->
                      Wrap(N, BigAdd(start_value, BigMulSmall(step_value, i - 1)))]
    IN  IF overflow /\ checks THEN Aborted(self, "overflow")
        ELSE Built([self EXCEPT !.values = values],
                   IF overflow THEN "overflow" ELSE cause)

\* discrete_range's pair as it would be if the fine branch stepped the
\* domain by N::from(1) whatever the direction of the range
discrete_range_steps_Forward(dimension, value_distance, sign) ==
    IF BigLt(BigAbs(value_distance), dimension)
    THEN IF value_distance = Big(0)
         THEN [zero_divisor |-> TRUE, dimension_step |-> Big(0), domain_step |-> Big(0)]
         ELSE [zero_divisor |-> FALSE,
               dimension_step |-> BigDivT(dimension, BigAbs(value_distance)),
               domain_step |-> Big(1)]
    ELSE IF dimension = Big(0)
         THEN [zero_divisor |-> TRUE, dimension_step |-> Big(0), domain_step |-> Big(0)]
         ELSE LET rem  == BigRemT(value_distance, dimension) # Big(0)
                  step == BigAdd(BigDivT(value_distance, dimension),
                                 IF rem THEN Big(sign) ELSE Big(0))
              IN  [zero_divisor |-> FALSE, dimension_step |-> Big(1),
                   domain_step |-> Wrap(I32, step)]

\* the pair (dimension_step, domain_step) of discrete_range, or a division or
\* a remainder by zero
discrete_range_steps(dimension, value_distance, sign) ==
    IF BigLt(BigAbs(value_distance), dimension)
    THEN IF value_distance = Big(0)
         THEN [zero_divisor |-> TRUE, dimension_step |-> Big(0), domain_step |-> Big(0)]
         ELSE [zero_divisor |-> FALSE,
               dimension_step |-> BigDivT(dimension, BigAbs(value_distance)),
               domain_step |-> Big(sign)]
    ELSE IF dimension = Big(0)
         THEN [zero_divisor |-> TRUE, dimension_step |-> Big(0), domain_step |-> Big(0)]
         ELSE LET rem  == BigRemT(value_distance, dimension) # Big(0)
                  step == BigAdd(BigDivT(value_distance, dimension),
                                 IF rem THEN Big(sign) ELSE Big(0))
              IN  [zero_divisor |-> FALSE, dimension_step |-> Big(1),
                   domain_step |-> Wrap(I32, step)]

discrete_range(N, self, r, checks) ==
    With(NativeSub(N, r.end, r.start), LAMBDA sub :
      IF sub.overflow /\ checks THEN Aborted(self, "overflow")
      ELSE
        With(discrete_range_steps(Big(self.dimension), sub.v,
                                  IF BigLt(r.end, r.start) THEN -1 ELSE 1),
             LAMBDA pair :
          IF pair.zero_divisor \/ pair.domain_step = Big(0)
          THEN Aborted(self, "divide_by_zero")
          ELSE
            With(BigAdd(BigDivT(sub.v, pair.domain_step),
                        IF BigRemT(sub.v, pair.domain_step) # Big(0)
                        THEN Big(1) ELSE Big(0)),
                 LAMBDA count :
              assign_steps(N,
                           [self EXCEPT
                               !.dimension_step = BigToInt(pair.dimension_step),
                               !.dimension_start = 0],
                           count, r.start, pair.domain_step,
                           IF sub.overflow THEN "overflow" ELSE "none", checks))))

\* ordered as it would be keeping the labels up to index dimension - 1
ordered_KeepLast(self, steps, checks) ==
    With(Cardinality({i \in 1..Len(steps) : i - 1 <= self.dimension - 1}),
         LAMBDA len :
      Built([self EXCEPT !.values = [i \in 1..len |-> steps[i]],
                         !.dimension_step = self.dimension \div (len + 1),
                         !.dimension_start = self.dimension \div (len + 1)],
            "none"))

ordered(self, steps, checks) ==
    With(NativeSub(USIZE, Big(self.dimension), Big(1)), LAMBDA max_index :
      IF max_index.overflow /\ checks THEN Aborted(self, "underflow")
      ELSE
        With(Cardinality({i \in 1..Len(steps) : BigLt(Big(i - 1), max_index.v)}),
             LAMBDA len :
          Built([self EXCEPT !.values = [i \in 1..len |-> steps[i]],
                             !.dimension_step = self.dimension \div (len + 1),
                             !.dimension_start = self.dimension \div (len + 1)],
                IF max_index.overflow THEN "underflow" ELSE "none")))

\* i128, the type of the element count
I128 == [name |-> "i128", bits |-> 128, lo |-> SignedMin(128), hi |-> SignedMax(128),
         MIN |-> SignedMin(128), MAX |-> SignedMax(128)]

\* the values the fold of assign_steps pushes for an f64 domain: each is the
\* one before plus step_value, rounded as f64 addition rounds
RECURSIVE FloatSteps(_, _, _)
FloatSteps(len, current_value, step_value) ==
    IF len = 0 THEN <<>>
    ELSE With(F64Add(current_value, step_value), LAMBDA next_value :
           <<current_value>> \o FloatSteps(len - 1, next_value, step_value))

\* assign_steps on ScaledSteps<f64>: no addition overflows; a count that no
\* vector holds ends the program
assign_steps_f64(self, count, start_value, step_value) ==
    IF count.s = 1 \/ count = Big(0) THEN Built([self EXCEPT !.values = <<>>], "none")
    ELSE IF ~BigIsSmall(count) THEN Aborted(self, "capacity")
    ELSE Built([self EXCEPT !.values =
                   FloatSteps(BigToInt(count), start_value, step_value)], "none")

continuous_range(self, r) ==
    With(F64Sub(r.end, r.start), LAMBDA value_distance :
      With(F64Div(value_distance, to_float(Big(self.dimension))), LAMBDA domain_step :
        With(from_float(I128, F64Floor(F64Div(value_distance, domain_step))),
             LAMBDA count :
          assign_steps_f64([self EXCEPT !.dimension_step = 1], count, r.start,
                           domain_step))))

\* ScaledSteps::iter and ScaledStepsIter::next; iter holds the values yet to
\* come.  The coordinates of the model stay far below usize::MAX, so that
\* `self.dimension += self.dimension_step` never overflows.
NoStepsCursor == [live |-> FALSE, dimension |-> 0, dimension_step |-> 0, iter |-> <<>>]

\* iter as it would be starting every enumeration at coordinate 0
ScaledSteps_iter_FromZero(self) ==
    [live |-> TRUE, dimension |-> 0, dimension_step |-> self.dimension_step,
     iter |-> self.values]

ScaledSteps_iter(self) ==
    [live |-> TRUE, dimension |-> self.dimension_start,
     dimension_step |-> self.dimension_step, iter |-> self.values]

\* next as it would be advancing the coordinate by one
ScaledStepsIterNext_UnitStep(c) ==
    IF c.iter # <<>>
    THEN [some |-> TRUE,
          item |-> [value |-> Head(c.iter), dimension |-> c.dimension],
          cursor |-> [c EXCEPT !.dimension = c.dimension + 1,
                               !.iter = Tail(c.iter)]]
    ELSE [some |-> FALSE, item |-> [value |-> Big(0), dimension |-> 0], cursor |-> c]

ScaledStepsIterNext(c) ==
    IF c.iter # <<>>
    THEN [some |-> TRUE,
          item |-> [value |-> Head(c.iter), dimension |-> c.dimension],
          cursor |-> [c EXCEPT !.dimension = c.dimension + c.dimension_step,
                               !.iter = Tail(c.iter)]]
    ELSE [some |-> FALSE, item |-> [value |-> Big(0), dimension |-> 0], cursor |-> c]

(***************************************************************************)
(* Band.  The dimension of a band is a usize, an integer of any size.      *)
(***************************************************************************)
\* the f64 literals of Band::new: 0.1, 0.05 and 0.5
DEFAULT_PADDING_INNER == F64Div(F64FromInt(1), F64FromInt(10))

DEFAULT_PADDING_OUTER == F64Div(F64FromInt(5), F64FromInt(100))

DEFAULT_ALIGN == F64Div(F64FromInt(1), F64FromInt(2))

NoBand == [dimension |-> Big(0), domain |-> <<>>, padding_inner |-> F64Nan,
           padding_outer |-> F64Nan, align |-> F64Nan]

\* [kind, cause, dimension]
\* calculate_dimension as it would be keeping the requested dimension
calculate_dimension_Requested(n, dimension, padding_inner, checks) ==
    [kind |-> "Ok", cause |-> "none", dimension |-> dimension]

\* calculate_dimension as it would be without usize::max: the dimension that
\* the categories and the padding ask for
calculate_dimension_Bands(n, dimension, padding_inner, checks) ==
    [kind |-> "Ok", cause |-> "none",
     dimension |-> from_float(USIZE,
                              F64Round(F64Div(F64FromInt(n - 1), padding_inner)))]

calculate_dimension(n, dimension, padding_inner, checks) ==
    With(NativeSub(USIZE, Big(n), Big(1)), LAMBDA sub :
      IF sub.overflow /\ checks
      THEN [kind |-> "Panic", cause |-> "underflow", dimension |-> dimension]
      ELSE
        With(from_float(USIZE, F64Round(F64Div(to_float(sub.v), padding_inner))),
             LAMBDA bands :
          [kind |-> "Ok", cause |-> IF sub.overflow THEN "underflow" ELSE "none",
           dimension |-> IF BigLt(dimension, bands) THEN bands ELSE dimension]))

Band_new(domain, dimension, checks) ==
    With(calculate_dimension(Len(domain), Big(dimension), DEFAULT_PADDING_INNER,
                             checks),
         LAMBDA d :
      [kind |-> d.kind, cause |-> d.cause,
       band |-> IF d.kind = "Panic" THEN NoBand
                ELSE [dimension |-> d.dimension, domain |-> domain,
                      padding_inner |-> DEFAULT_PADDING_INNER,
                      padding_outer |-> DEFAULT_PADDING_OUTER,
                      align |-> DEFAULT_ALIGN]])

\* Band::padding_inner: a padding of 1.0 or more is replaced by 0.1, and the
\* dimension is calculated again from the one the band has
padding_inner(self, padding, checks) ==
    With(IF F64Lt(padding, F64FromInt(1)) THEN padding ELSE DEFAULT_PADDING_INNER,
         LAMBDA p :
      With(calculate_dimension(Len(self.domain), self.dimension, p, checks),
           LAMBDA d :
        [kind |-> d.kind, cause |-> d.cause,
         band |-> IF d.kind = "Panic" THEN self
                  ELSE [self EXCEPT !.padding_inner = p, !.dimension = d.dimension]]))

\* f64::max: the other operand when one is NaN
F64Max(x, y) ==
    IF x.k = "nan" THEN y ELSE IF y.k = "nan" THEN x
    ELSE IF F64Lt(x, y) THEN y ELSE x

NoBandCursor == [live |-> FALSE, step |-> F64Nan, current |-> F64Nan,
                 bandwidth |-> Big(0), iter |-> <<>>]

\* Band::iter: [kind, cause, cursor]; `self.dimension - 1` underflows for a
\* dimension of 0
Band_iter(self, checks) ==
    With(NativeSub(USIZE, self.dimension, Big(1)), LAMBDA last :
      IF last.overflow /\ checks
      THEN [kind |-> "Panic", cause |-> "underflow", cursor |-> NoBandCursor]
      ELSE
        With(F64FromInt(Len(self.domain)), LAMBDA n :
          With(F64Div(to_float(self.dimension),
                      F64Max(F64FromInt(1),
                             F64Add(F64Sub(n, self.padding_inner),
                                    F64Mul(self.padding_outer, F64FromInt(2))))),
               LAMBDA step :
            [kind |-> "Ok", cause |-> IF last.overflow THEN "underflow" ELSE "none",
             cursor |->
               [live |-> TRUE, step |-> step,
                current |-> F64Mul(F64Sub(to_float(last.v),
                                          F64Mul(step, F64Sub(n, self.padding_inner))),
                                   self.align),
                bandwidth |->
                  With(from_float(USIZE,
                                  F64Round(F64Mul(step,
                                                  F64Sub(F64FromInt(1),
                                                         self.padding_inner)))),
                       LAMBDA w : IF BigLt(w, Big(1)) THEN Big(1) ELSE w),
                iter |-> self.domain]])))

\* BandIter::next: [kind, cause, some, item, cursor], the item being
\* <<domain, <<dimension_start, dimension_end>>>>
BandIterNext(c, checks) ==
    IF c.iter # <<>>
    THEN With(from_float(USIZE, F64Round(c.current)), LAMBDA dimension_start :
           With(NativeAdd(USIZE, dimension_start, c.bandwidth), LAMBDA sum :
             IF sum.overflow /\ checks
             THEN [kind |-> "Panic", cause |-> "overflow", some |-> FALSE,
                   item |-> <<Big(0), <<Big(0), Big(0)>>>>, cursor |-> c]
             ELSE [kind |-> "Ok",
                   cause |-> IF sum.overflow THEN "overflow" ELSE "none",
                   some |-> TRUE,
                   item |-> <<Head(c.iter),
                              <<dimension_start, NativeSub(USIZE, sum.v, Big(1)).v>>>>,
                   cursor |-> [c EXCEPT !.current = F64Add(c.current, c.step),
                                        !.iter = Tail(c.iter)]]))
    ELSE [kind |-> "Ok", cause |-> "none", some |-> FALSE,
          item |-> <<Big(0), <<Big(0), Big(0)>>>>, cursor |-> c]

(***************************************************************************)
(* The inputs the model draws.                                             *)
(***************************************************************************)
MaxSmall == 2

MaxDenseDimension == 6

MaxStep == 2

MaxObserved == 14

\* every integer of magnitude at most MaxSmall
SmallValues == {Big(i) : i \in (0 - MaxSmall)..MaxSmall}

\* 0..22 over 12 coordinates puts 15 on a half where f64 rounds below it
ProbeValues == {Big(15), Big(22)}

ProbeDimensions == {12}

\* the type's limits and the values around its safe MIN and MAX
Extremes(T) ==
    {T.lo, T.hi, T.MIN, T.MAX, BigSub(T.MIN, Big(1)), BigAdd(T.MAX, Big(1))}

Endpoints(T) == {v \in SmallValues \cup ProbeValues \cup Extremes(T) : InType(T, v)}

Dimensions == 0..MaxDenseDimension \cup ProbeDimensions

Steps(T) == {v \in {Big(i) : i \in -1..MaxStep} : InType(T, v)}

Calls ==
    UNION {[T : {T}, start : Endpoints(T), end : Endpoints(T), dimension : Dimensions]
           : T \in NumTypes}

\* 0..7 over 6 coordinates has the ratio 1.4, and (3 / 1.4) * 1.4 is the f64
\* just below 3
IntervalProbeCalls ==
    {[T |-> T, start |-> Big(0), end |-> Big(7), dimension |-> 6] : T \in {I16, U16}}

ProbeSteps == {Big(3)}

MaxStepsDimension == 8

MaxLabels == 4

\* the integer types that are Into<i128> and From<i32>
StepTypes == {I32, I64}

\* small values, for i32 the limits of the type, and for i64 2^33, that many
\* units from the small values: a distance no i32 holds
StepEndpoints(N) ==
    SmallValues \cup (IF N = I32 THEN {N.lo, N.hi} ELSE {BigOfNat(Pow2Nat(33))})

Ranges(N) == [start : StepEndpoints(N), end : StepEndpoints(N)]

\* the lists of 0..MaxLabels labels
LabelLists == {[i \in 1..n |-> Big(i)] : n \in 0..MaxLabels}

BandDimensions == {0, 1, 15, 300}

BandCalls == [domain : LabelLists, dimension : BandDimensions]

\* the domain types of a ScaledSteps of the model, by name
StepTypeNames == {N.name : N \in StepTypes} \cup {"f64"}

StepType(name) == CHOOSE N \in StepTypes : N.name = name

\* 0.0..9.0 over 7 coordinates has a domain step that 9.0 holds less than
\* 7 times
ContinuousEndpoints == {F64FromInt(i) : i \in {-1, 0, 1, 9}}

ContinuousRanges == [start : ContinuousEndpoints, end : ContinuousEndpoints]

\* the label lists of a ScaledSteps<N>
Labels(name) ==
    IF name = "f64"
    THEN {[i \in 1..n |-> F64FromInt(i)] : n \in 0..MaxLabels}
    ELSE LabelLists

MaxPaddings == 2

MaxShared == 2

\* 1/16, 1/2, 3/2 and -1/2 as arguments of padding_inner
Paddings == {F64Div(F64FromInt(1), F64FromInt(16)),
             F64Div(F64FromInt(1), F64FromInt(2)),
             F64Div(F64FromInt(3), F64FromInt(2)),
             F64Div(F64FromInt(-1), F64FromInt(2))}

(***************************************************************************)
(* The state: one call of Linear::try_new, the scale it returns, and the   *)
(* scale's use, point lookups or one enumeration session.  overflow_checks *)
(* is "any" until an integer overflow shows which build runs: "on" panics, *)
(* "off" wraps.                                                            *)
(***************************************************************************)
VARIABLES call, overflow_checks, result, scale, query, cursor, session, emitted,
          finished

(***************************************************************************)
(* The generators: steps is a ScaledSteps, steps_result how the last       *)
(* constructor call on it ended; band_call is one call of Band::new and    *)
(* band_result what it returned.                                           *)
(***************************************************************************)
VARIABLES steps, steps_result, band_call, band_result

(***************************************************************************)
(* steps_call keeps the domain type of the generator and the arguments of  *)
(* the last constructor call on it, with fresh telling that the call was   *)
(* made on the generator as new returned it.  steps_cursor is the          *)
(* ScaledStepsIter of a enumeration of it and steps_emitted what its next  *)
(* calls returned.  band_paddings lists the arguments of the               *)
(* padding_inner calls made so far, band_cursor is what Band::iter and the *)
(* last next call returned, band_emitted the bands enumerated.             *)
(***************************************************************************)
VARIABLES steps_call, steps_cursor, steps_emitted, band_paddings, band_cursor,
          band_emitted

(***************************************************************************)
(* The enumeration sessions that run side by side on the one scale: for    *)
(* each name in CursorIds the DomainIter that iter or intervals returned,  *)
(* what its next calls yielded, and whether one of them returned None.     *)
(***************************************************************************)
VARIABLES sessions

(***************************************************************************)
(* steps_other is a second ScaledStepsIter that borrows the generator      *)
(* while steps_cursor does, with what its next calls returned.             *)
(***************************************************************************)
VARIABLES steps_other

linear_vars == <<call, result, scale, query, cursor, session, emitted, finished>>

steps_vars == <<steps, steps_result, steps_call, steps_cursor, steps_emitted,
               steps_other>>

band_vars == <<band_call, band_result, band_paddings, band_cursor, band_emitted>>

build_vars == <<steps_vars, band_vars>>

vars == <<call, overflow_checks, result, scale, query, cursor, session, emitted,
          finished, steps, steps_result, band_call, band_result, sessions,
          steps_call, steps_cursor, steps_emitted, band_paddings, band_cursor,
          band_emitted, steps_other>>

NoQuery == [op |-> "none", value |-> Big(0), coordinate |-> 0, kind |-> "None",
            c |-> 0, d |-> Big(0)]

NoSession == [op |-> "none", step |-> Big(0)]

CursorIds == {"a", "b"}

NoSessions ==
    [i \in CursorIds |-> [op |-> "none", step |-> Big(0), cursor |-> NoCursor,
                          yielded |-> <<>>, finished |-> FALSE]]

Checks == IF overflow_checks = "any" THEN BOOLEAN ELSE {overflow_checks = "on"}

Learned(overflowed, checks) ==
    IF overflowed THEN (IF checks THEN "on" ELSE "off") ELSE overflow_checks

Panic == result.kind = "Panic" \/ query.kind = "Panic"

\* the scale exists and no call on it is under way
Idle == result.kind = "Ok" /\ query.op = "none" /\ ~cursor.live

NoStepsResult == [call |-> "none", kind |-> "Ok", cause |-> "none"]

NewStepsResult == [call |-> "new", kind |-> "Ok", cause |-> "none"]

NoBandCall == [domain |-> <<>>, dimension |-> 0]

NoBandResult == [kind |-> "None", cause |-> "none", band |-> NoBand]

PendingBandResult == [kind |-> "Pending", cause |-> "none", band |-> NoBand]

NoStepsCall == [N |-> "none", start |-> Big(0), end |-> Big(0), labels |-> <<>>,
                fresh |-> TRUE]

NoBandIter == [kind |-> "Ok", cause |-> "none", cursor |-> NoBandCursor]

NoStepsOther == [cursor |-> NoStepsCursor, emitted |-> <<>>]

\* no generator is in use
BuildUnused ==
    /\ steps = ScaledSteps_new(0)
    /\ steps_result = NoStepsResult
    /\ band_call = NoBandCall
    /\ band_result = NoBandResult
    /\ steps_call = NoStepsCall
    /\ steps_cursor = NoStepsCursor
    /\ steps_emitted = <<>>
    /\ steps_other = NoStepsOther
    /\ band_paddings = <<>>
    /\ band_cursor = NoBandIter
    /\ band_emitted = <<>>

\* no Linear scale is in use
LinearUnused ==
    /\ call = [T |-> I16, start |-> Big(0), end |-> Big(0), dimension |-> 0]
    /\ result = [kind |-> "Pending", explain |-> ""]
    /\ scale = NoScale
    /\ query = NoQuery
    /\ cursor = NoCursor
    /\ session = NoSession
    /\ emitted = <<>>
    /\ finished = FALSE
    /\ sessions = NoSessions

Init ==
    /\ call \in Calls \cup IntervalProbeCalls
    /\ overflow_checks = "any"
    /\ result = [kind |-> "Pending", explain |-> ""]
    /\ scale = NoScale
    /\ query = NoQuery
    /\ cursor = NoCursor
    /\ session = NoSession
    /\ emitted = <<>>
    /\ finished = FALSE
    /\ sessions = NoSessions
    /\ BuildUnused

CallTryNew ==
    /\ result.kind = "Pending"
    /\ \E checks \in Checks :
          LET r == try_new(call.T, call.start, call.end, call.dimension, checks)
          IN  /\ result' = [kind |-> r.kind, explain |-> r.explain]
              /\ scale' = r.scale
              /\ overflow_checks' = Learned(r.overflowed, checks)
    /\ UNCHANGED <<call, query, cursor, session, emitted, finished, build_vars, sessions>>

CallDomainToCoordinate ==
    /\ Idle
    /\ \E value \in Endpoints(scale.T), checks \in Checks :
          LET r == domain_to_coordinate(scale, value, checks)
          IN  /\ query' = [op |-> "domain_to_coordinate", value |-> value,
                           coordinate |-> 0, kind |-> r.kind, c |-> r.v,
                           d |-> Big(0)]
              /\ overflow_checks' = Learned(r.overflowed, checks)
    /\ UNCHANGED <<call, result, scale, cursor, session, emitted, finished,
                   build_vars, sessions>>

CallCoordinateToDomain ==
    /\ Idle
    /\ \E coordinate \in 0..scale.dimension, checks \in Checks :
          LET r == coordinate_to_domain(scale, coordinate, checks)
          IN  /\ query' = [op |-> "coordinate_to_domain", value |-> Big(0),
                           coordinate |-> coordinate, kind |-> r.kind, c |-> 0,
                           d |-> r.v]
              /\ overflow_checks' = Learned(r.overflowed, checks)
    /\ UNCHANGED <<call, result, scale, cursor, session, emitted, finished,
                   build_vars, sessions>>

\* the caller takes the answer of a lookup; a panic is never returned from
Return ==
    /\ query.op # "none" /\ ~Panic
    /\ query' = NoQuery
    /\ UNCHANGED <<call, overflow_checks, result, scale, cursor, session, emitted,
                   finished, build_vars, sessions>>

CallIter ==
    /\ Idle
    /\ cursor' = iter(scale)
    /\ session' = [op |-> "iter", step |-> Big(0)]
    /\ UNCHANGED <<call, overflow_checks, result, scale, query, emitted, finished,
                   build_vars, sessions>>

\* intervals, on the scales that span small values and on the probe scales
CallIntervals ==
    /\ Idle
    /\ \/ BigLe(BigSub(scale.max, scale.min), Big(2 * MaxSmall))
       \/ call \in IntervalProbeCalls
    /\ \E step \in Steps(scale.T)
                    \cup (IF call \in IntervalProbeCalls THEN ProbeSteps ELSE {}) :
          /\ cursor' = intervals(scale, step)
          /\ session' = [op |-> "intervals", step |-> step]
    /\ UNCHANGED <<call, overflow_checks, result, scale, query, emitted, finished,
                   build_vars, sessions>>

\* one call of next on the session's cursor; emitted keeps what the calls
\* returned, up to MaxObserved items
CallNext ==
    /\ cursor.live
    /\ LET r == DomainIterNext(cursor)
       IN  /\ cursor' = r.cursor
           /\ emitted' = IF r.some /\ Len(emitted) < MaxObserved
                         THEN Append(emitted, r.item) ELSE emitted
           /\ finished' = (finished \/ ~r.some)
    /\ UNCHANGED <<call, overflow_checks, result, scale, query, session, build_vars, sessions>>

\* the cursor goes out of scope
DropCursor ==
    /\ cursor.live
    /\ cursor' = NoCursor
    /\ session' = NoSession
    /\ emitted' = <<>>
    /\ finished' = FALSE
    /\ UNCHANGED <<call, overflow_checks, result, scale, query, build_vars, sessions>>

Next ==
    \/ CallTryNew
    \/ CallDomainToCoordinate
    \/ CallCoordinateToDomain
    \/ Return
    \/ CallIter
    \/ CallIntervals
    \/ CallNext
    \/ DropCursor

Spec == Init /\ [][Next]_vars

(***************************************************************************)
(* Sessions side by side.  The program builds one scale and opens cursors  *)
(* on it under the names of CursorIds; the calls of next on them come in   *)
(* any order.  A name is free again when its cursor is dropped.            *)
(***************************************************************************)
MaxYielded == 6

SessionCalls ==
    [T : {I16, U16}, start : {Big(i) : i \in 0..MaxSmall},
     end : {Big(i) : i \in 0..MaxSmall}, dimension : {MIN_DIMENSION}]

SessionSteps == {Big(i) : i \in 0..MaxStep}

SessionInit ==
    /\ call \in SessionCalls
    /\ overflow_checks = "any"
    /\ result = [kind |-> "Pending", explain |-> ""]
    /\ scale = NoScale
    /\ query = NoQuery
    /\ cursor = NoCursor
    /\ session = NoSession
    /\ emitted = <<>>
    /\ finished = FALSE
    /\ sessions = NoSessions
    /\ BuildUnused

\* a session as one call of next on its cursor leaves it
SessionAfterNext(s) ==
    With(DomainIterNext(s.cursor), LAMBDA r :
      [s EXCEPT !.cursor = r.cursor,
                !.yielded = IF r.some THEN Append(@, r.item) ELSE @,
                !.finished = @ \/ ~r.some])

\* DomainIter::next takes `&mut self`: the call on the cursor named i changes
\* that cursor and no other
\* next as it would be if the cursors of a scale shared their position
next_on_Shared(ss, i) ==
    [j \in DOMAIN ss |-> IF ss[j].op # "none" THEN SessionAfterNext(ss[j]) ELSE ss[j]]

next_on(ss, i) == [ss EXCEPT ![i] = SessionAfterNext(ss[i])]

SessionIter(i) ==
    /\ result.kind = "Ok"
    /\ sessions[i].op = "none"
    /\ sessions' = [sessions EXCEPT ![i] =
                        [op |-> "iter", step |-> Big(0), cursor |-> iter(scale),
                         yielded |-> <<>>, finished |-> FALSE]]
    /\ UNCHANGED <<overflow_checks, linear_vars, build_vars>>

SessionIntervals(i) ==
    /\ result.kind = "Ok"
    /\ sessions[i].op = "none"
    /\ \E step \in SessionSteps :
          sessions' = [sessions EXCEPT ![i] =
                          [op |-> "intervals", step |-> step,
                           cursor |-> intervals(scale, step),
                           yielded |-> <<>>, finished |-> FALSE]]
    /\ UNCHANGED <<overflow_checks, linear_vars, build_vars>>

\* one call of next on the cursor named i; at most MaxYielded elements of a
\* cursor are observed
SessionNext(i) ==
    /\ sessions[i].op # "none"
    /\ Len(sessions[i].yielded) < MaxYielded
    /\ sessions' = next_on(sessions, i)
    /\ UNCHANGED <<overflow_checks, linear_vars, build_vars>>

SessionDrop(i) ==
    /\ sessions[i].op # "none"
    /\ sessions' = [sessions EXCEPT ![i] = NoSessions[i]]
    /\ UNCHANGED <<overflow_checks, linear_vars, build_vars>>

SessionsNext ==
    \/ CallTryNew
    \/ \E i \in CursorIds : SessionIter(i)
    \/ \E i \in CursorIds : SessionIntervals(i)
    \/ \E i \in CursorIds : SessionNext(i)
    \/ \E i \in CursorIds : SessionDrop(i)

SessionSpec == SessionInit /\ [][SessionsNext]_vars

(***************************************************************************)
(* The generators' specification.  The program is either a                 *)
(* ScaledSteps::new(dimension) on which constructor calls follow one       *)
(* another, each taking the generator the call before returned, or one     *)
(* call of Band::new.  A panic ends the program.                           *)
(***************************************************************************)
BuildPanic ==
    \/ steps_result.kind = "Panic"
    \/ band_result.kind = "Panic"
    \/ band_cursor.kind = "Panic"

\* which build runs shows when a call overflows, panicking or not
LearnedFrom(cause, checks) ==
    IF cause \in {"overflow", "underflow"}
    THEN (IF checks THEN "on" ELSE "off")
    ELSE overflow_checks

BuildInit ==
    /\ overflow_checks = "any"
    /\ LinearUnused
    /\ steps_cursor = NoStepsCursor
    /\ steps_emitted = <<>>
    /\ steps_other = NoStepsOther
    /\ band_paddings = <<>>
    /\ band_cursor = NoBandIter
    /\ band_emitted = <<>>
    /\ \/ /\ \E dimension \in 0..MaxStepsDimension :
                 steps = ScaledSteps_new(dimension)
          /\ steps_result = NewStepsResult
          /\ \E name \in StepTypeNames : steps_call = [NoStepsCall EXCEPT !.N = name]
          /\ band_call = NoBandCall
          /\ band_result = NoBandResult
       \/ /\ steps = ScaledSteps_new(0)
          /\ steps_result = NoStepsResult
          /\ steps_call = NoStepsCall
          /\ band_call \in BandCalls
          /\ band_result = PendingBandResult

\* the generator exists
StepsBuilt == steps_result.call # "none" /\ ~BuildPanic

\* a constructor takes the generator by value: no cursor borrows it
StepsReady == StepsBuilt /\ ~steps_cursor.live /\ ~steps_other.cursor.live

CallDiscreteRange ==
    /\ StepsReady
    /\ steps_call.N \in {N.name : N \in StepTypes}
    /\ \E checks \in Checks :
          \E r \in Ranges(StepType(steps_call.N)) :
             \E out \in {discrete_range(StepType(steps_call.N), steps, r, checks)} :
                /\ steps' = out.steps
                /\ steps_result' = [call |-> "discrete_range", kind |-> out.kind,
                                    cause |-> out.cause]
                /\ steps_call' = [steps_call EXCEPT
                                     !.start = r.start, !.end = r.end,
                                     !.labels = <<>>,
                                     !.fresh = (steps_result.call = "new")]
                /\ overflow_checks' = LearnedFrom(out.cause, checks)
    /\ UNCHANGED <<linear_vars, sessions, steps_cursor, steps_emitted, steps_other,
                   band_vars>>

CallContinuousRange ==
    /\ StepsReady
    /\ steps_call.N = "f64"
    /\ \E r \in ContinuousRanges :
          \E out \in {continuous_range(steps, r)} :
             /\ steps' = out.steps
             /\ steps_result' = [call |-> "continuous_range", kind |-> out.kind,
                                 cause |-> out.cause]
             /\ steps_call' = [steps_call EXCEPT
                                  !.start = r.start, !.end = r.end,
                                  !.labels = <<>>,
                                  !.fresh = (steps_result.call = "new")]
    /\ UNCHANGED <<overflow_checks, linear_vars, sessions, steps_cursor,
                   steps_emitted, steps_other, band_vars>>

CallOrdered ==
    /\ StepsReady
    /\ \E labels \in Labels(steps_call.N), checks \in Checks :
          \E out \in {ordered(steps, labels, checks)} :
             /\ steps' = out.steps
             /\ steps_result' = [call |-> "ordered", kind |-> out.kind,
                                 cause |-> out.cause]
             /\ steps_call' = [steps_call EXCEPT
                                  !.start = Big(0), !.end = Big(0),
                                  !.labels = labels,
                                  !.fresh = (steps_result.call = "new")]
             /\ overflow_checks' = LearnedFrom(out.cause, checks)
    /\ UNCHANGED <<linear_vars, sessions, steps_cursor, steps_emitted, steps_other,
                   band_vars>>

CallStepsIter ==
    /\ StepsBuilt /\ ~steps_cursor.live
    /\ steps_cursor' = ScaledSteps_iter(steps)
    /\ steps_emitted' = <<>>
    /\ UNCHANGED <<overflow_checks, linear_vars, sessions, steps, steps_result,
                   steps_call, steps_other, band_vars>>

CallStepsNext ==
    /\ steps_cursor.live
    /\ \E r \in {ScaledStepsIterNext(steps_cursor)} :
          /\ steps_cursor' = r.cursor
          /\ steps_emitted' = IF r.some THEN Append(steps_emitted, r.item)
                              ELSE steps_emitted
    /\ UNCHANGED <<overflow_checks, linear_vars, sessions, steps, steps_result,
                   steps_call, steps_other, band_vars>>

DropStepsCursor ==
    /\ steps_cursor.live
    /\ steps_cursor' = NoStepsCursor
    /\ steps_emitted' = <<>>
    /\ UNCHANGED <<overflow_checks, linear_vars, sessions, steps, steps_result,
                   steps_call, steps_other, band_vars>>

\* a second iter() on a generator of at most MaxShared values
CallOtherIter ==
    /\ StepsBuilt /\ ~steps_other.cursor.live
    /\ Len(steps.values) <= MaxShared
    /\ steps_other' = [cursor |-> ScaledSteps_iter(steps), emitted |-> <<>>]
    /\ UNCHANGED <<overflow_checks, linear_vars, sessions, steps, steps_result,
                   steps_call, steps_cursor, steps_emitted, band_vars>>

CallOtherNext ==
    /\ steps_other.cursor.live
    /\ \E r \in {ScaledStepsIterNext(steps_other.cursor)} :
          steps_other' = [cursor |-> r.cursor,
                          emitted |-> IF r.some THEN Append(steps_other.emitted, r.item)
                                      ELSE steps_other.emitted]
    /\ UNCHANGED <<overflow_checks, linear_vars, sessions, steps, steps_result,
                   steps_call, steps_cursor, steps_emitted, band_vars>>

DropOtherCursor ==
    /\ steps_other.cursor.live
    /\ steps_other' = NoStepsOther
    /\ UNCHANGED <<overflow_checks, linear_vars, sessions, steps, steps_result,
                   steps_call, steps_cursor, steps_emitted, band_vars>>

CallBandNew ==
    /\ band_result.kind = "Pending"
    /\ \E checks \in Checks :
          \E out \in {Band_new(band_call.domain, band_call.dimension, checks)} :
             /\ band_result' = out
             /\ overflow_checks' = LearnedFrom(out.cause, checks)
    /\ UNCHANGED <<linear_vars, sessions, steps_vars, band_call, band_paddings,
                   band_cursor, band_emitted>>

\* the band exists and no cursor borrows it
BandReady == band_result.kind = "Ok" /\ ~BuildPanic /\ ~band_cursor.cursor.live

CallPaddingInner ==
    /\ BandReady
    /\ Len(band_paddings) < MaxPaddings
    /\ \E padding \in Paddings, checks \in Checks :
          \E out \in {padding_inner(band_result.band, padding, checks)} :
             /\ band_result' = out
             /\ band_paddings' = Append(band_paddings, padding)
             /\ overflow_checks' = LearnedFrom(out.cause, checks)
    /\ UNCHANGED <<linear_vars, sessions, steps_vars, band_call, band_cursor,
                   band_emitted>>

CallBandIter ==
    /\ BandReady
    /\ \E checks \in Checks :
          \E out \in {Band_iter(band_result.band, checks)} :
             /\ band_cursor' = out
             /\ overflow_checks' = LearnedFrom(out.cause, checks)
    /\ band_emitted' = <<>>
    /\ UNCHANGED <<linear_vars, sessions, steps_vars, band_call, band_result,
                   band_paddings>>

CallBandNext ==
    /\ band_cursor.cursor.live /\ ~BuildPanic
    /\ \E checks \in Checks :
          \E r \in {BandIterNext(band_cursor.cursor, checks)} :
             /\ band_cursor' = [kind |-> r.kind, cause |-> r.cause,
                                cursor |-> r.cursor]
             /\ band_emitted' = IF r.some THEN Append(band_emitted, r.item)
                                ELSE band_emitted
             /\ overflow_checks' = LearnedFrom(r.cause, checks)
    /\ UNCHANGED <<linear_vars, sessions, steps_vars, band_call, band_result,
                   band_paddings>>

DropBandCursor ==
    /\ band_cursor.cursor.live /\ ~BuildPanic
    /\ band_cursor' = NoBandIter
    /\ band_emitted' = <<>>
    /\ UNCHANGED <<overflow_checks, linear_vars, sessions, steps_vars, band_call,
                   band_result, band_paddings>>

BuildNext ==
    \/ CallDiscreteRange
    \/ CallContinuousRange
    \/ CallOrdered
    \/ CallStepsIter
    \/ CallStepsNext
    \/ DropStepsCursor
    \/ CallOtherIter
    \/ CallOtherNext
    \/ DropOtherCursor
    \/ CallBandNew
    \/ CallPaddingInner
    \/ CallBandIter
    \/ CallBandNext
    \/ DropBandCursor

BuildSpec == BuildInit /\ [][BuildNext]_vars

(***************************************************************************)
(* What the claims say, over the states of Spec.                           *)
(***************************************************************************)
Returned == result.kind # "Pending"

CallMin == IF BigLt(call.start, call.end) THEN call.start ELSE call.end

CallMax == IF BigLt(call.start, call.end) THEN call.end ELSE call.start

\* the safe maximum as the documentation gives it
DocumentedMAX(T) ==
    IF T.name \in {"i64", "usize"}
    THEN BigOfNat(NatFromThousands(<<9, 7, 199, 254, 740, 990>>))
    ELSE BigSub(T.hi, Big(1))

\* C1: try_new returns Err(DimensionTooSmall) for every dimension < 5,
\* whatever start and end are, also when they are out of the safe range.
C1_DimensionCheckWins ==
    (Returned /\ call.dimension < 5) => result.kind = "DimensionTooSmall"

\* a call with dimension 4 and an end above the safe MAX was refused for its
\* dimension
C1_Witness ==
    /\ result.kind = "DimensionTooSmall"
    /\ call.dimension = 4
    /\ BigLt(call.T.MAX, call.end)

\* C2: for dimension >= 5, try_new returns Err(OutOfRange) whenever min is
\* below the safe MIN or max is above the safe MAX (the type maximum minus 1,
\* or 9_007_199_254_740_990 for i64 and usize); endpoints equal to MIN or MAX
\* are not rejected by this check.
C2_SafeRangeCheck ==
    (Returned /\ call.dimension >= 5) =>
        LET outside == \/ BigLt(CallMin, call.T.MIN)
                       \/ BigLt(DocumentedMAX(call.T), CallMax)
        IN  /\ outside => result.kind = "OutOfRange"
            /\ ~outside => ~(/\ result.kind = "OutOfRange"
                             /\ result.explain \in {"minimum", "maximum"})

\* an i64 start just below the safe MIN was refused as out of range
C2_Witness ==
    /\ result.kind = "OutOfRange"
    /\ call.dimension >= 5
    /\ call.start = BigSub(call.T.MIN, Big(1))
    /\ call.end = call.T.MAX

\* C3: when both endpoints pass the MIN/MAX check and the mathematical span
\* max - min exceeds the safe MAX, try_new returns Err(OutOfRange): the native
\* subtraction never overflows or wraps into a value that passes the check.
C3_SpanChecked ==
    (/\ Returned
     /\ call.dimension >= 5
     /\ BigLe(call.T.MIN, CallMin)
     /\ BigLe(CallMax, call.T.MAX)
     /\ BigLt(call.T.MAX, BigSub(CallMax, CallMin)))
    => result.kind = "OutOfRange"

\* the exact value as an integer of an f64 that holds one
F64ToBig(x) ==
    IF F64TruncNat(x) = <<>> THEN Big(0) ELSE [s |-> x.s, n |-> F64TruncNat(x)]

\* round(p / q) for naturals p and q # 0, halves away from zero
NatRoundDiv(p, q) == NatDivMod(NatAdd(NatMulSmall(p, 2), q), NatMulSmall(q, 2))[1]

\* C5: domain_to_coordinate(value) is None exactly when value < min or
\* value > max, and otherwise Some(round(|value - start| * (dimension - 1) /
\* domain_range)), the distance measured from start.
C5_DomainToCoordinate ==
    (query.op = "domain_to_coordinate") =>
        LET inside   == BigLe(scale.min, query.value) /\ BigLe(query.value, scale.max)
            distance == BigSub(query.value, scale.start).n
            span     == BigSub(scale.max, scale.min).n
        IN  /\ query.kind = "None" <=> ~inside
            /\ (inside /\ span # <<>>) =>
                   /\ query.kind = "Some"
                   /\ NatFromInt(query.c) =
                          NatRoundDiv(NatMul(distance, NatFromInt(scale.dimension - 1)),
                                      span)

\* C6: coordinate_to_domain(coordinate) is None exactly when coordinate >=
\* dimension, and otherwise start + round(ratio * coordinate), rounded to
\* nearest and not truncated.
C6_CoordinateToDomain ==
    (query.op = "coordinate_to_domain") =>
        /\ query.kind = "None" <=> query.coordinate >= scale.dimension
        /\ query.coordinate < scale.dimension =>
               /\ query.kind = "Some"
               /\ query.d = BigAdd(scale.start,
                                   F64ToBig(F64Round(F64Mul(scale.ratio,
                                                            F64FromInt(query.coordinate)))))

\* C7: for every v in [min, max], coordinate_to_domain(domain_to_coordinate(v))
\* is defined and differs from v by at most one unit.
C7_RoundTrip ==
    (/\ query.op = "domain_to_coordinate"
     /\ BigLe(scale.min, query.value)
     /\ BigLe(query.value, scale.max))
    => /\ query.kind = "Some"
       /\ \A checks \in Checks :
             LET back == coordinate_to_domain(scale, query.c, checks)
             IN  /\ back.kind = "Some"
                 /\ BigLe(BigSub(back.v, query.value), Big(1))
                 /\ BigLe(BigSub(query.value, back.v), Big(1))

\* C8: for start # end and every v in [min, max], domain_to_coordinate(v) on
\* try_new(end, start, d) is d - 1 - domain_to_coordinate(v) on
\* try_new(start, end, d), halves included.
C8_Mirror ==
    (/\ query.op = "domain_to_coordinate"
     /\ call.start # call.end
     /\ BigLe(scale.min, query.value)
     /\ BigLe(query.value, scale.max))
    => /\ query.kind = "Some"
       /\ \A checks \in Checks :
             LET reversed == try_new(call.T, call.end, call.start, call.dimension,
                                     checks)
                 mirrored == domain_to_coordinate(reversed.scale, query.value, checks)
             IN  /\ reversed.kind = "Ok"
                 /\ mirrored.kind = "Some"
                 /\ mirrored.v = scale.dimension - 1 - query.c

\* C9: iter() yields exactly `dimension` elements, with the coordinates
\* 0, 1, ..., dimension - 1 in that order.
C9_IterCoordinates ==
    (session.op = "iter") =>
        /\ Len(emitted) <= scale.dimension
        /\ \A i \in 1..Len(emitted) : emitted[i][2] = i - 1
        /\ finished => Len(emitted) = scale.dimension

\* C10: every lazy sequence terminates: the calls of next on a cursor of
\* iter() or intervals(step) return None after finitely many elements.  A
\* cursor that does so is never in a state that next leaves as it is while
\* returning an element: from there every later call returns one more.
C10_Terminates ==
    cursor.live =>
        ~(DomainIterNext(cursor).some /\ DomainIterNext(cursor).cursor = cursor)

\* C12: every coordinate a scale that try_new returned produces lies in
\* [0, dimension): each Some(c) of domain_to_coordinate and each coordinate
\* that iter() or intervals(step) emits satisfies 0 <= c <= dimension - 1.
C12_CoordinateRange ==
    result.kind = "Ok" =>
        /\ (query.op = "domain_to_coordinate" /\ query.kind = "Some") =>
               query.c \in 0..(scale.dimension - 1)
        /\ \A i \in 1..Len(emitted) : emitted[i][2] \in 0..(scale.dimension - 1)

\* C20: when dimension >= 5 and both endpoints lie within the safe MIN..MAX
\* but the span max - min exceeds the safe maximum, try_new fails with the
\* error kind RangeExceedsMaximum.
C20_RangeExceedsMaximum ==
    (/\ Returned
     /\ call.dimension >= 5
     /\ BigLe(call.T.MIN, CallMin)
     /\ BigLe(CallMax, call.T.MAX)
     /\ BigLt(call.T.MAX, BigSub(CallMax, CallMin)))
    => result.kind = "RangeExceedsMaximum"

\* v as the domain type holds it: from_float of the f64 that is exactly v
Saturated(T, v) == IF BigLt(v, T.lo) THEN T.lo ELSE IF BigLt(T.hi, v) THEN T.hi ELSE v

\* the k-th element (from 0) of intervals(step) as the claim gives it: the
\* value start + k * |step| * sign(ratio), the coordinate
\* round(k * |step| * (dimension - 1) / (max - min))
IntervalElement(k) ==
    LET stride == IF BigLt(scale.start, call.end) THEN BigAbs(session.step)
                  ELSE BigNeg(BigAbs(session.step))
        span   == BigSub(scale.max, scale.min).n
    IN  <<Saturated(scale.T,
                    BigAdd(scale.start,
                           [s |-> stride.s, n |-> NatMulSmall(stride.n, k)])),
          NatToInt(NatRoundDiv(NatMulSmall(NatMulSmall(BigAbs(session.step).n, k),
                                           scale.dimension - 1),
                               span))>>

\* C21: for a scale with start # end and a step # 0, the k-th element of
\* intervals(step) is (from_float(start + k * |step| * sign(ratio)),
\* round(k * |step / ratio|)), the first is (start, 0), and the sequence ends
\* at the first k whose rounded coordinate is >= dimension.
C21_IntervalElements ==
    (/\ session.op = "intervals"
     /\ session.step # Big(0)
     /\ call.start # call.end)
    => /\ \A i \in 1..Len(emitted) :
             /\ emitted[i] = IntervalElement(i - 1)
             /\ emitted[i][2] < scale.dimension
       /\ (finished /\ Len(emitted) < MaxObserved) =>
              IntervalElement(Len(emitted))[2] >= scale.dimension

\* C25: every scale that try_new returns as Ok has dimension >= 5,
\* min <= max, start one of min and max, a finite ratio with the sign + for
\* start < end and - otherwise (-0.0 for start = end), and a domain_range that
\* is the integer max - min, with 0 <= domain_range <= the type's safe MAX.
C25_ScaleInvariant ==
    result.kind = "Ok" =>
        /\ scale.dimension >= 5
        /\ BigLe(scale.min, scale.max)
        /\ scale.start \in {scale.min, scale.max}
        /\ scale.ratio.k = "fin"
        /\ IF BigLt(call.start, call.end)
           THEN scale.ratio.s = 0 /\ ~IsZero(scale.ratio)
           ELSE scale.ratio.s = 1
        /\ scale.domain_range.k = "fin"
        /\ scale.domain_range.e >= 0 - MANT_BITS
        /\ (IsZero(scale.domain_range) \/ scale.domain_range.s = 0)
        /\ to_float(BigSub(scale.max, scale.min)) = scale.domain_range
        /\ F64ToBig(scale.domain_range) = BigSub(scale.max, scale.min)
        /\ BigLe(BigSub(scale.max, scale.min), scale.T.MAX)

\* C28: for every integer scale with start # end, forward or reversed,
\* signed or unsigned, coordinate_to_domain(0) = Some(start) and
\* coordinate_to_domain(dimension - 1) = Some(end).
C28_EndsMapToEnds ==
    (/\ query.op = "coordinate_to_domain"
     /\ call.start # call.end)
    => /\ query.coordinate = 0 =>
              query.kind = "Some" /\ query.d = call.start
       /\ query.coordinate = scale.dimension - 1 =>
              query.kind = "Some" /\ query.d = call.end

\* C29: enumeration and point lookup agree: for every integer scale and
\* every pair (d, c) that iter() yields, coordinate_to_domain(c) = Some(d).
C29_IterAgreesWithLookup ==
    (session.op = "iter") =>
        \A i \in 1..Len(emitted) :
            \A checks \in Checks :
                \E lookup \in {coordinate_to_domain(scale, emitted[i][2], checks)} :
                    /\ lookup.kind = "Some"
                    /\ lookup.v = emitted[i][1]

(***************************************************************************)
(* What the claims say, over the states of SessionSpec.                    *)
(***************************************************************************)
\* the session s after k calls of next and no other call, from the cursor
\* that iter or intervals returns
RECURSIVE AloneRun(_, _)
AloneRun(fresh, k) ==
    IF k = 0 THEN fresh
    ELSE With(AloneRun(fresh, k - 1), LAMBDA before : SessionAfterNext(before))

FreshSession(s) ==
    [s EXCEPT !.cursor = IF s.op = "iter" THEN iter(scale)
                         ELSE intervals(scale, s.step),
              !.yielded = <<>>, !.finished = FALSE]

\* each cursor is where it would be alone, and its first element is (start, 0)
C11_Alone ==
    \A i \in CursorIds :
        sessions[i].op # "none" =>
            LET alone == AloneRun(FreshSession(sessions[i]), Len(sessions[i].yielded))
            IN  /\ alone.yielded = sessions[i].yielded
                /\ alone.cursor = sessions[i].cursor
                /\ sessions[i].finished => ~DomainIterNext(alone.cursor).some
                /\ sessions[i].yielded # <<>> =>
                       sessions[i].yielded[1] = <<scale.start, 0>>

\* a call of next leaves the scale and every other cursor as they are
C11_NextIsLocal ==
    \A i \in CursorIds :
        SessionNext(i) =>
            /\ scale' = scale
            /\ \A j \in CursorIds \ {i} : sessions'[j] = sessions[j]

\* C11: enumeration sessions are independent: with two cursors on one scale
\* and their next calls in any order, each cursor yields the sequence it
\* yields when advanced alone, a fresh iter() or intervals() starts at
\* (start, 0), and no call of next changes the scale.
C11_IndependentSessions == [](C11_Alone) /\ [][C11_NextIsLocal]_vars

\* two cursors of one scale at different positions, one of them of iter and
\* one of intervals
C11_Witness ==
    /\ sessions["a"].op = "iter"
    /\ Len(sessions["a"].yielded) = 3
    /\ sessions["b"].op = "intervals"
    /\ Len(sessions["b"].yielded) = 1

(***************************************************************************)
(* What the claims say, over the states of BuildSpec.                      *)
(***************************************************************************)
\* C4: no construction call aborts: for every dimension >= 0 and every
\* input, discrete_range (also with start = end), ordered (also with
\* dimension = 0) and Band::new (also with an empty domain) return a value
\* without a division by zero or an unsigned underflow.
C4_NoAbort ==
    /\ steps_result.kind = "Ok"
    /\ steps_result.cause \notin {"divide_by_zero", "underflow"}
    /\ band_result.kind # "Panic"
    /\ band_result.cause \notin {"divide_by_zero", "underflow"}


\* the call that steps_result reports was discrete_range(start..end)
AfterDiscreteRange == steps_result.call = "discrete_range"

\* end - start of the last range call, the integer and not what the domain
\* type keeps of it
Distance == BigSub(steps_call.end, steps_call.start)

RangeSign == IF BigLt(steps_call.end, steps_call.start) THEN -1 ELSE 1

\* every element that the cursor returned is the next value of the
\* generator, at the coordinate first + k * spacing for the k-th (k from 0)
EmittedAt(first, spacing) ==
    steps_cursor.live =>
        /\ Len(steps_emitted) + Len(steps_cursor.iter) = Len(steps.values)
        /\ \A k \in 1..Len(steps_emitted) :
              steps_emitted[k] = [value |-> steps.values[k],
                                  dimension |-> first + (k - 1) * spacing]

C14_DiscreteRangeCoarse ==
    (/\ AfterDiscreteRange
     /\ steps.dimension > 0
     /\ BigLe(Big(steps.dimension), BigAbs(Distance)))
    => LET dimension == Big(steps.dimension)
           magnitude == BigDivT(BigAdd(BigAbs(Distance), Big(steps.dimension - 1)),
                                dimension)
           count     == BigToInt(BigDivT(BigAdd(BigAbs(Distance),
                                                BigSub(magnitude, Big(1))),
                                         magnitude))
           last      == steps.values[count]
       IN  /\ steps_result.kind = "Ok"
           /\ steps.dimension_step = 1
           /\ Len(steps.values) = count
           /\ count <= steps.dimension
           /\ \A i \in 1..count :
                 steps.values[i] =
                     BigAdd(steps_call.start,
                            BigMulSmall(IF RangeSign = 1 THEN magnitude
                                        ELSE BigNeg(magnitude), i - 1))
           /\ IF RangeSign = 1 THEN BigLt(last, steps_call.end)
              ELSE BigLt(steps_call.end, last)
           /\ EmittedAt(0, 1)

\* the call that steps_result reports was continuous_range(start..end)
AfterContinuousRange == steps_result.call = "continuous_range"

\* C15: ScaledSteps::new(dimension).continuous_range(start..end) with
\* dimension > 0 and start # end yields exactly `dimension` elements at the
\* coordinates 0, 1, ..., dimension - 1; the i-th value is start plus i
\* accumulated additions of (end - start) / dimension: the first value is
\* start and end is never emitted.
C15_ContinuousRange ==
    (/\ AfterContinuousRange
     /\ steps_call.fresh
     /\ steps.dimension > 0
     /\ steps_call.start # steps_call.end)
    => /\ steps_result.kind = "Ok"
       /\ steps.values =
              FloatSteps(steps.dimension, steps_call.start,
                         F64Div(F64Sub(steps_call.end, steps_call.start),
                                F64FromInt(steps.dimension)))
       /\ steps.values[1] = steps_call.start
       /\ \A i \in 1..Len(steps.values) : steps.values[i] # steps_call.end
       /\ EmittedAt(0, 1)

\* the call that steps_result reports was ordered(labels)
AfterOrdered == steps_result.call = "ordered"

\* C16: ordered(labels) with dimension >= 1 keeps exactly the first
\* min(len(labels), dimension - 1) labels, in input order, and drops the rest.
C16_OrderedKeeps ==
    (AfterOrdered /\ steps.dimension >= 1)
    => /\ steps_result.kind = "Ok"
       /\ steps.values =
              SubSeq(steps_call.labels, 1,
                     IF Len(steps_call.labels) < steps.dimension - 1
                     THEN Len(steps_call.labels) ELSE steps.dimension - 1)

\* four labels over dimension 4: the first three are kept
C16_Witness ==
    /\ AfterOrdered
    /\ steps.dimension = 4
    /\ Len(steps_call.labels) = 4
    /\ Len(steps.values) = 3

\* C17: after ordered(labels) keeps count labels, the i-th emitted element
\* (i from 0) has the coordinate (i + 1) * floor(dimension / (count + 1)):
\* the first coordinate is dimension_step and not 0, the last is
\* count * floor(dimension / (count + 1)).
C17_OrderedCoordinates ==
    (AfterOrdered /\ steps_result.kind = "Ok")
    => LET spacing == steps.dimension \div (Len(steps.values) + 1)
       IN  /\ steps.dimension_step = spacing
           /\ steps.dimension_start = spacing
           /\ EmittedAt(spacing, spacing)

\* three labels over dimension 8 were enumerated to the end: the last is at
\* coordinate 3 * (8 / 4) = 6
C17_Witness ==
    /\ AfterOrdered
    /\ steps.dimension = 8
    /\ steps_cursor.live /\ steps_cursor.iter = <<>>
    /\ Len(steps_emitted) = 3
    /\ steps_emitted[3].dimension = 6

\* C18: for Band::new(domain, dimension) with n >= 1 categories,
\* dimension >= 1 and the default padding, the n pairs (band_start, band_end)
\* of iter() are ascending, do not overlap and stay inside the effective
\* dimension: band_start <= band_end, each band_end is below the next
\* band_start, and the last band_end <= effective dimension - 1.
C18_BandsAscending ==
    (/\ band_result.kind = "Ok"
     /\ band_paddings = <<>>
     /\ Len(band_call.domain) >= 1
     /\ band_call.dimension >= 1)
    => /\ band_cursor.kind = "Ok"
       /\ \A k \in 1..Len(band_emitted) :
             LET band == band_emitted[k][2]
             IN  /\ band_emitted[k][1] = band_call.domain[k]
                 /\ BigLe(band[1], band[2])
                 /\ BigLt(band[2], band_result.band.dimension)
                 /\ k > 1 => BigLt(band_emitted[k - 1][2][2], band[1])
       /\ (band_cursor.cursor.live /\ band_cursor.cursor.iter = <<>>) =>
              Len(band_emitted) = Len(band_call.domain)

\* three categories over dimension 300 were enumerated to the end; the last
\* band is (205, 294)
C18_Witness ==
    /\ band_result.kind = "Ok"
    /\ band_paddings = <<>>
    /\ Len(band_call.domain) = 3
    /\ band_call.dimension = 300
    /\ band_cursor.cursor.live /\ band_cursor.cursor.iter = <<>>
    /\ Len(band_emitted) = 3
    /\ band_emitted[3][2] = <<Big(205), Big(294)>>

\* round((n - 1) / p) of the reals, for an f64 p with 0 < p < 1
PaddingBound(n, p) ==
    BigOfNat(NatRoundDiv(NatShl(NatFromInt(n - 1), 0 - p.e), p.m))

Replays(c, e) ==
    c.live =>
        /\ Len(e) + Len(c.iter) = Len(steps.values)
        /\ c.iter = SubSeq(steps.values, Len(e) + 1, Len(steps.values))
        /\ \A k \in 1..Len(e) :
              e[k] = [value |-> steps.values[k],
                      dimension |-> steps.dimension_start
                                    + (k - 1) * steps.dimension_step]

\* both cursors replay the list, and nothing comes from a generator as new
\* returned it
C22_Replay ==
    /\ Replays(steps_cursor, steps_emitted)
    /\ Replays(steps_other.cursor, steps_other.emitted)
    /\ steps_result.call = "new" =>
           /\ steps_emitted = <<>>
           /\ steps_other.emitted = <<>>
           /\ steps_cursor.live => ~ScaledStepsIterNext(steps_cursor).some

\* iter, next and the end of a cursor leave the generator as it is
C22_Frame ==
    (\/ CallStepsIter \/ CallStepsNext \/ DropStepsCursor
     \/ CallOtherIter \/ CallOtherNext \/ DropOtherCursor)
    => steps' = steps

\* C22: enumerating a ScaledSteps replays its stored list: every iter()
\* yields the stored values in order, the i-th with the coordinate
\* dimension_start + i * dimension_step; enumerating any number of times,
\* also with two cursors side by side, yields the same sequence and leaves
\* dimension, values, dimension_step and dimension_start unchanged; a
\* generator on which no constructor was applied yields nothing.
C22_Enumeration == [](C22_Replay) /\ [][C22_Frame]_vars

\* two labels over dimension 8: one cursor has emitted both, the other one
C22_Witness ==
    /\ AfterOrdered
    /\ steps.dimension = 8
    /\ Len(steps.values) = 2
    /\ steps_cursor.live /\ Len(steps_emitted) = 2
    /\ steps_other.cursor.live /\ Len(steps_other.emitted) = 1
    /\ steps_emitted[2].dimension = 4

\* step, bandwidth and the first current of Band::iter as the claim gives
\* them, dimension - 1 being the integer
ClaimedBandIter(b) ==
    With(F64FromInt(Len(b.domain)), LAMBDA n :
      With(F64Div(to_float(b.dimension),
                  F64Max(F64FromInt(1),
                         F64Add(F64Sub(n, b.padding_inner),
                                F64Mul(b.padding_outer, F64FromInt(2))))),
           LAMBDA step :
        [step |-> step,
         bandwidth |->
             With(from_float(USIZE,
                             F64Round(F64Mul(step, F64Sub(F64FromInt(1),
                                                          b.padding_inner)))),
                  LAMBDA w : IF BigLt(w, Big(1)) THEN Big(1) ELSE w),
         current |-> F64Mul(F64Sub(to_float(BigSub(b.dimension, Big(1))),
                                   F64Mul(step, F64Sub(n, b.padding_inner))),
                            b.align)]))

\* the i-th pair (from 0) as the claim gives it
ClaimedBand(it, i) ==
    With(from_float(USIZE,
                    F64Round(F64Add(it.current, F64Mul(F64FromInt(i), it.step)))),
         LAMBDA band_start :
      <<band_start, BigSub(BigAdd(band_start, it.bandwidth), Big(1))>>)

\* C23: Band::iter() yields exactly one pair per domain element, in input
\* order; with step, bandwidth and the first current as Band::iter computes
\* them, the i-th pair has band_start = round(current + i * step) and
\* band_end = band_start + bandwidth - 1, so band_end >= band_start.
C23_BandPairs ==
    band_result.kind = "Ok" =>
        /\ band_cursor.kind = "Ok"
        /\ \A it \in {ClaimedBandIter(band_result.band)} :
              \A k \in 1..Len(band_emitted) :
                  /\ band_emitted[k][1] = band_result.band.domain[k]
                  /\ band_emitted[k][2] = ClaimedBand(it, k - 1)
                  /\ BigLe(band_emitted[k][2][1], band_emitted[k][2][2])
        /\ (band_cursor.cursor.live /\ band_cursor.cursor.iter = <<>>) =>
               Len(band_emitted) = Len(band_result.band.domain)

\* 0 <= x < 1
IsFraction(x) == x.k = "fin" /\ (IsZero(x) \/ x.s = 0) /\ F64Lt(x, F64FromInt(1))

\* C24: in every Band that Band::new and any sequence of padding_inner(p)
\* calls, with any p, give, padding_inner, padding_outer and align are
\* fractions in [0, 1), 0.1, 0.05 and 0.5 by default; an argument outside
\* [0, 1) never becomes the stored inner padding.
C24_PaddingFractions ==
    band_result.kind = "Ok" =>
        /\ IsFraction(band_result.band.padding_inner)
        /\ IsFraction(band_result.band.padding_outer)
        /\ IsFraction(band_result.band.align)
        /\ band_paddings = <<>> =>
               /\ band_result.band.padding_inner = DEFAULT_PADDING_INNER
               /\ band_result.band.padding_outer = DEFAULT_PADDING_OUTER
               /\ band_result.band.align = DEFAULT_ALIGN

\* C26: for an i64 domain, discrete_range with dimension <= |end - start|
\* steps the domain by ceil(|end - start| / dimension) towards end, not by
\* what 32 bits keep of it, also when the step is above i32::MAX: the step
\* is never zero or of the wrong sign, the count is in 1..dimension and the
\* last value does not pass end.
C26_WideStep ==
    (/\ AfterDiscreteRange
     /\ steps_call.N = "i64"
     /\ steps.dimension > 0
     /\ BigLe(Big(steps.dimension), BigAbs(Distance)))
    => LET magnitude == BigDivT(BigAdd(BigAbs(Distance), Big(steps.dimension - 1)),
                                Big(steps.dimension))
           stride    == IF RangeSign = 1 THEN magnitude ELSE BigNeg(magnitude)
           count     == Len(steps.values)
       IN  /\ steps_result.kind = "Ok"
           /\ count \in 1..steps.dimension
           /\ steps.values[1] = steps_call.start
           /\ \A i \in 2..count :
                 BigSub(steps.values[i], steps.values[i - 1]) = stride
           /\ IF RangeSign = 1 THEN BigLt(steps.values[count], steps_call.end)
              ELSE BigLt(steps_call.end, steps.values[count])
           /\ BigLe(BigAbs(BigSub(steps_call.end, steps.values[count])), magnitude)

\* what the last constructor call returns on ScaledSteps::new(dimension)
LastCallAlone(checks) ==
    IF steps_result.call = "discrete_range"
    THEN discrete_range(StepType(steps_call.N), ScaledSteps_new(steps.dimension),
                        [start |-> steps_call.start, end |-> steps_call.end], checks)
    ELSE IF steps_result.call = "continuous_range"
    THEN continuous_range(ScaledSteps_new(steps.dimension),
                          [start |-> steps_call.start, end |-> steps_call.end])
    ELSE ordered(ScaledSteps_new(steps.dimension), steps_call.labels, checks)

\* C27: the last constructor call determines the generator: after any
\* sequence of discrete_range, continuous_range and ordered calls on
\* ScaledSteps::new(d), values, dimension_step and dimension_start are those
\* of the last call applied alone to a fresh ScaledSteps::new(d); in
\* particular continuous_range after ordered starts at coordinate 0.
C27_LastCallDecides ==
    (/\ steps_result.call \in {"discrete_range", "continuous_range", "ordered"}
     /\ steps_result.kind = "Ok")
    => /\ \E checks \in Checks :
             \E alone \in {LastCallAlone(checks)} :
                 /\ alone.kind = "Ok"
                 /\ alone.steps = steps
       /\ (steps_result.call = "continuous_range" /\ steps_emitted # <<>>) =>
              steps_emitted[1].dimension = 0

\* the coordinates of e are below the dimension and do not decrease; they
\* increase when dimension_step >= 1
CoordinatesInside(e) ==
    \A k \in 1..Len(e) :
        /\ e[k].dimension < steps.dimension
        /\ k > 1 =>
               /\ e[k - 1].dimension <= e[k].dimension
               /\ steps.dimension_step >= 1 => e[k - 1].dimension < e[k].dimension

\* C30: for a generator built by exactly one constructor call on
\* ScaledSteps::new(dimension) with dimension >= 1 (discrete_range with
\* start # end, continuous_range or ordered), every emitted coordinate is
\* strictly less than dimension, and the emitted coordinates are
\* non-decreasing, strictly increasing whenever dimension_step >= 1.
C30_CoordinatesInside ==
    (/\ steps_result.call \in {"discrete_range", "continuous_range", "ordered"}
     /\ steps_call.fresh
     /\ steps.dimension >= 1
     /\ steps_result.call = "discrete_range" => steps_call.start # steps_call.end)
    => /\ CoordinatesInside(steps_emitted)
       /\ CoordinatesInside(steps_other.emitted)

=============================================================================
